---- MODULE Spec2Model ----
(***************************************************************************)
(* Call-session orchestration of the voice receptionist backend:           *)
(*   - the SQLite store (calls, call_structured_data, contacts, clients,   *)
(*     client_phone_numbers, callback_requests),                           *)
(*   - the webhook handler handleInboundCall and its per-type handlers,    *)
(*   - the tool endpoint handleToolExecution and its three handlers.       *)
(* Tables are sets of rows; a JSON body is a record whose domain is the    *)
(* set of keys present; SQL NULL / JS undefined is the string NULL.        *)
(***************************************************************************)
EXTENDS Integers, Sequences, FiniteSets, TLC

VARIABLES
    calls,                  \* rows of table calls
    call_structured_data,   \* rows of table call_structured_data
    contacts,               \* rows of table contacts
    clients,                \* rows of table clients
    client_phone_numbers,   \* rows of table client_phone_numbers
    callback_requests,      \* rows of table callback_requests
    controlPosts,           \* transfer commands accepted by the live-call-control channel
    delivered,              \* number of requests handled so far
    last,                   \* the request just handled and what its handler did
    response,               \* the HTTP reply to the request just handled
    inflight,               \* end-of-call reports being handled, each between two awaits
    clock                   \* the local instant the server's clock shows

vars == <<calls, call_structured_data, contacts, clients, client_phone_numbers,
          callback_requests, controlPosts, delivered, last, response, inflight, clock>>

storeVars == <<calls, call_structured_data, contacts, callback_requests, controlPosts>>

configVars == <<clients, client_phone_numbers>>

NULL == "NULL"

NULLNUM == -1

-----------------------------------------------------------------------------
(* Bounds of the model. *)

MaxDeliveries == 2

-----------------------------------------------------------------------------
(* Value domains the requests are drawn from. *)

CallIds == {"call-1", "call-2"}

KnownPhone == "+16025705474"

UnknownPhone == "+19999999999"

Phones == {KnownPhone, UnknownPhone}

CallStatuses == {"queued", "ringing", "in-progress", "forwarding", "ended"}

(* call.status of an end-of-call-report. *)
ReportStatuses == {"ended"}

(* status values handed to saveCall directly; the last is outside the column's CHECK list. *)
StatusInputs == {"in-progress", "ended", "transferred"}

Summaries == {"first summary", "second summary"}

ContactStatuses == {"VIP", "New", "Bad Standing", "Regular"}

IntentCategories == {"sales", "rental", "parts", "service", "billing", "general", "other"}

DefaultClientId == "tex-intel-primary"

PortalClientId == "client-portal"

ClientIds == {DefaultClientId, PortalClientId}

PhoneLineIds == {"line-1", "line-2"}

Departments == {"sales", "rentals", "service", "parts", "billing"}

(* successEvaluation texts, as sequences of characters; <<>> is absent. *)
SuccessTexts ==
    { <<>>,
      <<"8", "/", "1", "0">>,
      <<"8", "0", "%">> }

(* Results of the external structured-output extraction. *)
StructuredResults ==
    { [caller |-> [name |-> "Bob", company |-> NULL, phone |-> NULL, email |-> NULL],
       intent |-> [category |-> "sales"],
       machine |-> [make |-> "Cat", model |-> "336", category |-> "Excavator"]],
      [caller |-> [name |-> NULL, company |-> "Acme", phone |-> UnknownPhone, email |-> NULL],
       intent |-> [category |-> "rental"],
       machine |-> [make |-> NULL, model |-> NULL, category |-> NULL]] }

(* Object.values(artifact.structuredOutputs): none, an error entry, or a result. *)
StructuredOutputs ==
    { <<>>, <<[error |-> "extraction failed"]>> }
    \cup { <<[result |-> r]>> : r \in StructuredResults }

(* Store operations a fault can be injected into (I/O error, store not initialised). *)
StoreOps == {"saveCall", "saveStructuredData", "updateContact", "getContact",
             "getClientByPhoneNumberId", "getClientById", "saveCallbackRequest"}

Faults == {"none"} \cup StoreOps

-----------------------------------------------------------------------------
(* JS truthiness and `x || null` on the values above. *)

Truthy(x) == x # NULL /\ x # ""

OrNull(x) == IF Truthy(x) THEN x ELSE NULL

NumOrNull(n) == IF n = NULLNUM \/ n = 0 THEN NULLNUM ELSE n

(* SET col = ? in place of SET col = COALESCE(?, col). *)
COALESCE_Overwrite(new, old) == new

COALESCE(new, old) == IF new # NULL THEN new ELSE old

-----------------------------------------------------------------------------
(* The success score: score.match(/(\d+)/) and parseInt(match[1]). *)

Digits == {"0", "1", "2", "3", "4", "5", "6", "7", "8", "9"}

DigitVal(c) ==
    CASE c = "0" -> 0 [] c = "1" -> 1 [] c = "2" -> 2 [] c = "3" -> 3 [] c = "4" -> 4
      [] c = "5" -> 5 [] c = "6" -> 6 [] c = "7" -> 7 [] c = "8" -> 8 [] c = "9" -> 9

RECURSIVE parseInt(_, _, _)
(* Value of the maximal digit run of text that starts at position i, given the value acc so far. *)
parseInt(text, i, acc) ==
    IF i > Len(text) \/ text[i] \notin Digits
    THEN acc
    ELSE parseInt(text, i + 1, acc * 10 + DigitVal(text[i]))

parseSuccessScore(text) ==
    IF text = <<>>
    THEN NULLNUM
    ELSE LET starts == {i \in 1..Len(text) : text[i] \in Digits}
         IN IF starts = {}
            THEN NULLNUM
            ELSE LET first == CHOOSE i \in starts : \A j \in starts : i <= j
                 IN parseInt(text, first, 0)

-----------------------------------------------------------------------------
(* DatabaseService: each operation is given as the table contents it      *)
(* leaves and the condition under which the statement is accepted.        *)

SeedContacts ==
    { [phone_number |-> KnownPhone, name |-> "Abhave", company |-> "Tex Intel HQ",
       email |-> NULL, status |-> "VIP", last_machine |-> "Cat 336 Excavator",
       total_calls |-> 0] }

SeedClients ==
    { [id |-> PortalClientId, name |-> "Tex Intel", vapi_assistant_id |-> NULL,
       sales_phone |-> "+16025705474", service_phone |-> "+16025705474",
       parts_phone |-> "+16025705474", rentals_phone |-> NULL, billing_phone |-> NULL] }

(* The row saveCall binds to its INSERT. *)
CallRow(callData) ==
    [id |-> callData.id,
     phone_number_id |-> OrNull(callData.phoneNumberId),
     caller_phone |-> OrNull(callData.callerPhone),
     status |-> callData.status,
     summary |-> OrNull(callData.summary),
     success_score |-> NumOrNull(callData.successScore)]

(* CHECK constraints of table calls. *)
CallsCheck(row) ==
    /\ row.status = NULL \/ row.status \in CallStatuses
    /\ row.success_score = NULLNUM \/ (row.success_score >= 1 /\ row.success_score <= 10)

(* saveCall written as an UPDATE of the row an earlier event of the call created. *)
saveCall_UpdateOnly(table, callData) ==
    IF \E r \in table : r.id = callData.id
    THEN {r \in table : r.id # callData.id} \cup {CallRow(callData)}
    ELSE table

(* saveCall written with INSERT OR IGNORE: a row with the same primary key stays as it is. *)
saveCall_InsertOrIgnore(table, callData) ==
    IF \E r \in table : r.id = callData.id THEN table ELSE table \cup {CallRow(callData)}

(* INSERT OR REPLACE INTO calls: the row with the same primary key is deleted first. *)
saveCall(table, callData) ==
    {r \in table : r.id # callData.id} \cup {CallRow(callData)}

(* saveCall written as DELETE FROM calls WHERE id = ? followed by a plain INSERT. *)
saveCallStatement_DeleteThenInsert(table, callData, accepted) ==
    IF accepted THEN saveCall(table, callData) ELSE {r \in table : r.id # callData.id}

(* db.run of the one statement of saveCall: a statement that fails changes nothing. *)
saveCallStatement(table, callData, accepted) ==
    IF accepted THEN saveCall(table, callData) ELSE table

(* The delete done by REPLACE runs the ON DELETE CASCADE of call_structured_data.call_id. *)
CascadeDeleteCall(sdTable, callId) ==
    {r \in sdTable : r.call_id # callId}

StructuredRow(callId, data) ==
    [call_id |-> callId,
     caller_name |-> OrNull(data.caller.name),
     caller_company |-> OrNull(data.caller.company),
     caller_phone |-> OrNull(data.caller.phone),
     caller_email |-> OrNull(data.caller.email),
     intent_category |-> OrNull(data.intent.category),
     machine_make |-> OrNull(data.machine.make),
     machine_model |-> OrNull(data.machine.model),
     machine_category |-> OrNull(data.machine.category),
     raw_json |-> data]

(* The constraints of call_structured_data with foreign keys not enforced. *)
StructuredCheck_NoForeignKey(callsTable, row) ==
    row.intent_category = NULL \/ row.intent_category \in IntentCategories

(* CHECK and FOREIGN KEY constraints of table call_structured_data. *)
StructuredCheck(callsTable, row) ==
    /\ row.intent_category = NULL \/ row.intent_category \in IntentCategories
    /\ \E c \in callsTable : c.id = row.call_id

(* A plain INSERT INTO call_structured_data on a table without UNIQUE(call_id). *)
saveStructuredData_PlainInsert(sdTable, callId, data) ==
    sdTable \cup {StructuredRow(callId, data)}

(* INSERT OR REPLACE INTO call_structured_data: call_id is UNIQUE. *)
saveStructuredData(sdTable, callId, data) ==
    {r \in sdTable : r.call_id # callId} \cup {StructuredRow(callId, data)}

getContact(table, phoneNumber) ==
    {r \in table : r.phone_number = phoneNumber}

(* UNIQUE(phone_number): an INSERT INTO contacts is accepted when no row has the phone. *)
ContactsUnique(table, phoneNumber) ==
    ~ \E r \in table : r.phone_number = phoneNumber

(* The statement updateContact runs after its SELECT returned `existing`:           *)
(* UPDATE ... COALESCE(?, col), total_calls + 1 WHERE phone_number = ?, or INSERT   *)
(* with total_calls 1.  The table is the one the statement finds when it runs.      *)
updateContactWrite(table, existing, phoneNumber, data) ==
    IF existing # {}
    THEN {r \in table : r.phone_number # phoneNumber} \cup
         { [r EXCEPT !.name = COALESCE(OrNull(data.name), @),
                     !.company = COALESCE(OrNull(data.company), @),
                     !.email = COALESCE(OrNull(data.email), @),
                     !.last_machine = COALESCE(OrNull(data.lastMachine), @),
                     !.total_calls = @ + 1] : r \in getContact(table, phoneNumber) }
    ELSE table \cup
         { [phone_number |-> phoneNumber,
            name |-> OrNull(data.name),
            company |-> OrNull(data.company),
            email |-> OrNull(data.email),
            status |-> "New",
            last_machine |-> OrNull(data.lastMachine),
            total_calls |-> 1] }

(* updateContact with nothing running between its SELECT and its statement. *)
updateContact(table, phoneNumber, data) ==
    updateContactWrite(table, getContact(table, phoneNumber), phoneNumber, data)

getClientById(table, clientId) ==
    {c \in table : c.id = clientId}

(* The join without its phone-line condition: a client mapped to any line. *)
getClientByPhoneNumberId_AnyLine(table, mapping, vapiPhoneNumberId) ==
    LET result == {c \in table : \E m \in mapping : m.client_id = c.id}
    IN IF result = {} THEN getClientById(table, DefaultClientId) ELSE result

(* Join on the phone-line mapping, falling back to the default client id. *)
getClientByPhoneNumberId(table, mapping, vapiPhoneNumberId) ==
    LET result == {c \in table : \E m \in mapping :
                        /\ m.client_id = c.id
                        /\ m.vapi_phone_number_id = vapiPhoneNumberId}
    IN IF result = {} THEN getClientById(table, DefaultClientId) ELSE result

(* UPDATE of name and the three phones when the client exists, INSERT otherwise. *)
upsertClient(table, clientData) ==
    LET existing == getClientById(table, clientData.id)
    IN IF existing # {}
       THEN (table \ existing) \cup
            { [c EXCEPT !.name = clientData.name,
                        !.sales_phone = OrNull(clientData.salesPhone),
                        !.service_phone = OrNull(clientData.servicePhone),
                        !.parts_phone = OrNull(clientData.partsPhone)] : c \in existing }
       ELSE table \cup
            { [id |-> clientData.id, name |-> clientData.name, vapi_assistant_id |-> NULL,
               sales_phone |-> OrNull(clientData.salesPhone),
               service_phone |-> OrNull(clientData.servicePhone),
               parts_phone |-> OrNull(clientData.partsPhone),
               rentals_phone |-> NULL, billing_phone |-> NULL] }

updateClientAssistantId(table, clientId, assistantId) ==
    { IF c.id = clientId THEN [c EXCEPT !.vapi_assistant_id = assistantId] ELSE c : c \in table }

(* INSERT OR REPLACE INTO client_phone_numbers: vapi_phone_number_id is UNIQUE. *)
addClientPhoneNumber(mapping, clientId, vapiPhoneNumberId) ==
    {m \in mapping : m.vapi_phone_number_id # vapiPhoneNumberId}
    \cup {[client_id |-> clientId, vapi_phone_number_id |-> vapiPhoneNumberId]}

(* The INSERT binding the reason to preferred_time and the preferred time to reason. *)
saveCallbackRequest_SwappedBinding(table, data) ==
    table \cup
    { [id |-> Cardinality(table) + 1,
       client_id |-> data.clientId,
       customer_name |-> data.customerName,
       customer_phone |-> data.customerPhone,
       preferred_time |-> data.reason,
       reason |-> data.preferredTime,
       department |-> data.department,
       status |-> "pending"] }

(* INSERT INTO callback_requests; id is AUTOINCREMENT, status defaults to pending. *)
saveCallbackRequest(table, data) ==
    table \cup
    { [id |-> Cardinality(table) + 1,
       client_id |-> data.clientId,
       customer_name |-> data.customerName,
       customer_phone |-> data.customerPhone,
       preferred_time |-> data.preferredTime,
       reason |-> data.reason,
       department |-> data.department,
       status |-> "pending"] }

(* NOT NULL columns of callback_requests. *)
CallbackCheck(data) ==
    /\ data.customerName # NULL
    /\ data.customerPhone # NULL
    /\ data.preferredTime # NULL
    /\ data.reason # NULL
    /\ data.department # NULL

-----------------------------------------------------------------------------
(* Context builder, as called by handleAssistantRequest. *)

(* Local instants (weekday 0 = Sunday, hour) the requests arrive at. *)
Instants ==
    { [day |-> 1, hour |-> 10], [day |-> 3, hour |-> 21], [day |-> 0, hour |-> 12] }

(* Monday-Friday 8 to 20, Saturday 9 to 15, Sunday closed. *)
isOpenAt(now) ==
    IF now.day >= 1 /\ now.day <= 5
    THEN now.hour >= 8 /\ now.hour < 20
    ELSE IF now.day = 6
         THEN now.hour >= 9 /\ now.hour < 15
         ELSE FALSE

nextOpenTimeAt(now) ==
    IF now.day >= 1 /\ now.day <= 5
    THEN IF ~isOpenAt(now) /\ now.hour < 8 THEN "Today at 8:00 AM"
         ELSE IF ~isOpenAt(now) /\ now.hour >= 20
              THEN (IF now.day = 5 THEN "Saturday at 9:00 AM" ELSE "Tomorrow at 8:00 AM")
              ELSE NULL
    ELSE IF now.day = 6
         THEN IF ~isOpenAt(now) /\ now.hour < 9 THEN "Today at 9:00 AM"
              ELSE IF ~isOpenAt(now) /\ now.hour >= 15 THEN "Monday at 8:00 AM"
                   ELSE NULL
         ELSE "Monday at 8:00 AM"

(* The context built without looking the caller up. *)
getCallerHistory_NoLookup(table, phoneNumber, fault) == {}

(* The caller's contact row, or {} when the lookup finds none or throws. *)
getCallerHistory(table, phoneNumber, fault) ==
    IF fault = "getContact" THEN {} ELSE getContact(table, phoneNumber)

(* The CURRENT CALL CONTEXT section of the system message, one tuple per line. *)
buildDynamicContext(contactTable, callerPhone, now, fault) ==
    LET history == getCallerHistory(contactTable, callerPhone, fault)
        named == {h \in history : Truthy(h.name)}
        callerLines ==
            IF named # {}
            THEN LET h == CHOOSE x \in named : TRUE
                 IN <<<<"- Name: ", h.name>>>>
                    \o (IF Truthy(h.company) THEN <<<<"- Company: ", h.company>>>> ELSE <<>>)
                    \o (IF Truthy(h.status) THEN <<<<"- Status: ", h.status>>>> ELSE <<>>)
                    \o (IF Truthy(h.last_machine)
                        THEN <<<<"- Previously asked about: ", h.last_machine>>>> ELSE <<>>)
                    \o <<<<"- Phone: ", callerPhone>>>>
            ELSE << <<"- New caller (no history)">>, <<"- Phone: ", callerPhone>> >>
        statusLines ==
            << <<"- Office status: ", IF isOpenAt(now) THEN "OPEN" ELSE "CLOSED">> >>
            \o (IF ~isOpenAt(now) /\ nextOpenTimeAt(now) # NULL
                THEN << <<"- Next open: ", nextOpenTimeAt(now)>> >> ELSE <<>>)
    IN [contextMessage |-> [caller |-> callerLines, business |-> statusLines],
        isAfterHours |-> ~isOpenAt(now)]

(* The opening line that greets as if the office were open at every hour. *)
buildFirstMessage_NeverClosed(clientName, callerHistory, isAfterHours) ==
    LET named == {h \in callerHistory : Truthy(h.name)}
    IN IF named # {}
       THEN <<"Hi ", (CHOOSE h \in named : TRUE).name, ", thanks for calling ", clientName,
              " again. This is Tex, how can I help you today?">>
       ELSE <<"Thanks for calling ", clientName, ". This is Tex, how can I help you today?">>

(* The opening line, as its template and the values substituted into it. *)
buildFirstMessage(clientName, callerHistory, isAfterHours) ==
    LET named == {h \in callerHistory : Truthy(h.name)}
    IN IF isAfterHours
       THEN IF named # {}
            THEN <<"Hi ", (CHOOSE h \in named : TRUE).name, ", thanks for calling ", clientName,
                   ". We're currently closed, but I can help you schedule a callback.">>
            ELSE <<"Thanks for calling ", clientName,
                   ". We're currently closed, but I can help you schedule a callback.">>
       ELSE IF named # {}
            THEN <<"Hi ", (CHOOSE h \in named : TRUE).name, ", thanks for calling ", clientName,
                   " again. This is Tex, how can I help you today?">>
            ELSE <<"Thanks for calling ", clientName,
                   ". This is Tex, how can I help you today?">>

-----------------------------------------------------------------------------
(* Context builder returning the prompt variables (context-builder.service.ts). *)

(* BUSINESS HOURS SCHEDULE as the prompt states it: the open window of each weekday   *)
(* (0 = Sunday), none on a closed day.                                                *)
Schedule ==
    [weekday \in 0..6 |->
        IF weekday >= 1 /\ weekday <= 5 THEN {[open |-> 8, close |-> 12]}
        ELSE IF weekday = 6 THEN {[open |-> 9, close |-> 15]}
        ELSE {}]

(* The calendar announcing the weekday opening after every close, Friday's included. *)
getBusinessHoursInfo_TomorrowAfterClose(now) ==
    LET weekday == now.day >= 1 /\ now.day <= 5
        isOpen == IF weekday THEN now.hour >= 8 /\ now.hour < 12
                  ELSE IF now.day = 6 THEN now.hour >= 9 /\ now.hour < 15
                  ELSE FALSE
    IN [isOpen |-> isOpen,
        nextOpenTime |-> IF isOpen THEN NULL
                         ELSE IF now.day = 0 THEN "Monday at 8:00 AM"
                         ELSE IF now.hour < 8 THEN "Today at 8:00 AM"
                         ELSE "Tomorrow at 8:00 AM"]

(* Monday-Friday 8 to 12, Saturday 9 to 15, Sunday closed; the next opening when closed. *)
getBusinessHoursInfo(now) ==
    LET weekday == now.day >= 1 /\ now.day <= 5
        isOpen == IF weekday THEN now.hour >= 8 /\ now.hour < 12
                  ELSE IF now.day = 6 THEN now.hour >= 9 /\ now.hour < 15
                  ELSE FALSE
        nextOpenTime ==
            IF weekday
            THEN IF ~isOpen /\ now.hour < 8 THEN "Today at 8:00 AM"
                 ELSE IF ~isOpen /\ now.hour >= 12
                      THEN (IF now.day = 5 THEN "Saturday at 9:00 AM" ELSE "Tomorrow at 8:00 AM")
                      ELSE NULL
            ELSE IF now.day = 6
                 THEN IF ~isOpen /\ now.hour < 9 THEN "Today at 9:00 AM"
                      ELSE IF ~isOpen /\ now.hour >= 15 THEN "Monday at 8:00 AM"
                           ELSE NULL
                 ELSE "Monday at 8:00 AM"
    IN [isOpen |-> isOpen, nextOpenTime |-> nextOpenTime]

(* The caller block with a stand-in name for a caller without one. *)
callerContext_Guest(history, callerPhone) ==
    LET named == {h \in history : Truthy(h.name)}
    IN IF named # {}
       THEN <<<<"Name: ", (CHOOSE x \in named : TRUE).name>>, <<"Phone: ", callerPhone>>>>
       ELSE << <<"Name: ", "Valued Customer">>, <<"Phone: ", callerPhone>> >>

(* The caller_context variable, one tuple per line: the fields on file for a caller    *)
(* with a name, the new-caller line otherwise.                                        *)
callerContext(history, callerPhone) ==
    LET named == {h \in history : Truthy(h.name)}
    IN IF named # {}
       THEN LET h == CHOOSE x \in named : TRUE
            IN <<<<"Name: ", h.name>>>>
               \o (IF Truthy(h.company) THEN <<<<"Company: ", h.company>>>> ELSE <<>>)
               \o (IF Truthy(h.status) THEN <<<<"Status: ", h.status>>>> ELSE <<>>)
               \o (IF Truthy(h.last_machine)
                   THEN <<<<"Previously asked about: ", h.last_machine>>>> ELSE <<>>)
               \o <<<<"Phone: ", callerPhone>>>>
       ELSE << <<"New caller (no history)">>, <<"Phone: ", callerPhone>> >>

(* buildDynamicContext of the variables version: caller block, office status, flag. *)
buildContextVariables(contactTable, callerPhone, now, fault) ==
    LET callerHistory == getCallerHistory(contactTable, callerPhone, fault)
        businessHours == getBusinessHoursInfo(now)
    IN [variables |->
            [caller_context |-> callerContext(callerHistory, callerPhone),
             business_hours_context |->
                 << <<"Office status: ", IF businessHours.isOpen THEN "OPEN" ELSE "CLOSED">> >>
                 \o (IF ~businessHours.isOpen /\ businessHours.nextOpenTime # NULL
                     THEN << <<"Next open: ", businessHours.nextOpenTime>> >> ELSE <<>>),
             additional_context |-> ""],
        isAfterHours |-> ~businessHours.isOpen]

-----------------------------------------------------------------------------
(* Dates of the business calendar. A Date is an instant, counted in whole hours since *)
(* a Sunday 00:00 UTC; a zone is the number of hours it is behind UTC.                *)

(* America/Phoenix: Mountain Standard Time all year, seven hours behind UTC. *)
PhoenixOffset == 7

(* The zones the server process runs in: UTC, as deployed, and the business zone. *)
ServerOffsets == {0, PhoenixOffset}

(* One week of instants, every weekday and hour of the business zone among them. *)
CalendarInstants == 168..335

dayNames ==
    <<"Sunday", "Monday", "Tuesday", "Wednesday", "Thursday", "Friday", "Saturday">>

(* The wall-clock fields of a Date in a zone: the day count and the hour of the day. *)
toLocale(date, offset) ==
    [day |-> (date - offset) \div 24, hour |-> (date - offset) % 24]

(* new Date(text): wall-clock fields without a zone are read in the server's zone. *)
parseLocal(fields, serverOffset) ==
    fields.day * 24 + fields.hour + serverOffset

(* Date.getDay and Date.getHours read the fields in the server's zone. *)
getDay(date, serverOffset) == toLocale(date, serverOffset).day % 7

getHours(date, serverOffset) == toLocale(date, serverOffset).hour

(* setDate(getDate() + n): the same time of day n days later. *)
addDays(date, n) == date + 24 * n

(* toLocaleDateString with weekday, month and day in timeZone America/Phoenix: the   *)
(* weekday name and the calendar day (its day count stands for month and day).       *)
toLocaleDateString(date) ==
    LET fields == toLocale(date, PhoenixOffset)
    IN [weekday |-> dayNames[(fields.day % 7) + 1], day |-> fields.day]

RECURSIVE skipSundays(_, _)
(* while (getDay() === 0) advance one day. *)
skipSundays(date, serverOffset) ==
    IF getDay(date, serverOffset) = 0
    THEN skipSundays(addDays(date, 1), serverOffset)
    ELSE date

RECURSIVE advanceTo(_, _, _)
(* while (getDay() !== weekday) advance one day. *)
advanceTo(date, weekday, serverOffset) ==
    IF getDay(date, serverOffset) # weekday
    THEN advanceTo(addDays(date, 1), weekday, serverOffset)
    ELSE date

(* The first date on the weekday from currentDate on, a week later when not after it. *)
nextWeekday(currentDate, weekday, serverOffset) ==
    LET found == advanceTo(currentDate, weekday, serverOffset)
    IN IF found <= currentDate THEN addDays(found, 7) ELSE found

(* The pre-computed dates; tomorrow is a set, empty when it is left undefined. *)
calculateUpcomingBusinessDays(currentDate, serverOffset) ==
    LET tomorrow == addDays(currentDate, 1)
        nextBusinessDay == skipSundays(addDays(currentDate, 1), serverOffset)
    IN [tomorrow |-> IF getDay(tomorrow, serverOffset) = 0
                     THEN {}
                     ELSE {toLocaleDateString(tomorrow)},
        nextBusinessDay |-> toLocaleDateString(nextBusinessDay),
        nextMonday |-> toLocaleDateString(nextWeekday(currentDate, 1, serverOffset)),
        nextTuesday |-> toLocaleDateString(nextWeekday(currentDate, 2, serverOffset))]

(* The calendar read off the server's own clock, without the Arizona wall clock. *)
getBusinessHoursInfoAt_ServerClock(now, serverOffset) ==
    LET day == getDay(now, serverOffset)
        hour == getHours(now, serverOffset)
        hours == getBusinessHoursInfo([day |-> day, hour |-> hour])
    IN [isOpen |-> hours.isOpen,
        nextOpenTime |-> hours.nextOpenTime,
        currentDay |-> dayNames[day + 1],
        currentDate |-> toLocaleDateString(now),
        upcomingBusinessDays |-> calculateUpcomingBusinessDays(now, serverOffset)]

(* getBusinessHoursInfo from the instant now on a server in the given zone: the       *)
(* Arizona wall clock re-read as a Date, its weekday and hour, and the dates.         *)
getBusinessHoursInfoAt(now, serverOffset) ==
    LET arizonaTime == parseLocal(toLocale(now, PhoenixOffset), serverOffset)
        day == getDay(arizonaTime, serverOffset)
        hour == getHours(arizonaTime, serverOffset)
        hours == getBusinessHoursInfo([day |-> day, hour |-> hour])
    IN [isOpen |-> hours.isOpen,
        nextOpenTime |-> hours.nextOpenTime,
        currentDay |-> dayNames[day + 1],
        currentDate |-> toLocaleDateString(arizonaTime),
        upcomingBusinessDays |-> calculateUpcomingBusinessDays(arizonaTime, serverOffset)]

-----------------------------------------------------------------------------
(* Webhook endpoint. *)

Ack == [status |-> 200, body |-> [status |-> "ok"]]

NoResponse == [status |-> 0, body |-> [none |-> NULL]]

NoRequest == [endpoint |-> "none"]

(* artifact.structuredOutputs: the first value, unless it is an error or has no result. *)
extractStructuredData(outputs) ==
    IF Len(outputs) > 0
    THEN LET o == outputs[1]
         IN IF ~("error" \in DOMAIN o /\ Truthy(o.error)) /\ "result" \in DOMAIN o
            THEN {o.result} ELSE {}
    ELSE {}

machineMention(data) ==
    IF Truthy(data.machine.make) /\ Truthy(data.machine.model)
    THEN data.machine.make \o " " \o data.machine.model
    ELSE OrNull(data.machine.category)

(* The reply sent from inside the try block, with the catch block answering the error. *)
reportReply_Surfaced(threw) ==
    IF threw = "none" THEN Ack
    ELSE [status |-> 500, body |-> [error |-> "Internal server error"]]

(* The catch block logs and swallows; the reply after it is the acknowledgement. *)
reportReply(threw) == Ack

EndOfCallReportMessages ==
    [callId : CallIds, status : ReportStatuses, customerNumber : {UnknownPhone},
     summary : Summaries, successEvaluation : SuccessTexts,
     structuredOutputs : StructuredOutputs]

(* handleEndOfCallReport: save the call, then the structured data, then the contact; *)
(* the first step that throws ends the try block; the reply is the acknowledgement.  *)
handleEndOfCallReport(message, fault) ==
    LET structuredData == extractStructuredData(message.structuredOutputs)
        callData == [id |-> message.callId,
                     phoneNumberId |-> NULL,
                     callerPhone |-> message.customerNumber,
                     status |-> message.status,
                     summary |-> message.summary,
                     successScore |-> parseSuccessScore(message.successEvaluation)]
        callSaved == fault # "saveCall" /\ CallsCheck(CallRow(callData))
        callsAfter == saveCallStatement(calls, callData, callSaved)
        sdCascaded == IF callSaved
                      THEN CascadeDeleteCall(call_structured_data, message.callId)
                      ELSE call_structured_data
        data == CHOOSE d \in structuredData : TRUE
        sdSaved == /\ callSaved
                   /\ structuredData # {}
                   /\ fault # "saveStructuredData"
                   /\ StructuredCheck(callsAfter, StructuredRow(message.callId, data))
        sdAfter == IF sdSaved THEN saveStructuredData(sdCascaded, message.callId, data)
                   ELSE sdCascaded
        callerPhone == IF structuredData # {} /\ Truthy(data.caller.phone)
                       THEN data.caller.phone ELSE message.customerNumber
        contactSaved == sdSaved /\ Truthy(callerPhone) /\ fault # "updateContact"
        contactsAfter ==
            IF contactSaved
            THEN updateContact(contacts, callerPhone,
                               [name |-> data.caller.name, company |-> data.caller.company,
                                email |-> data.caller.email, lastMachine |-> machineMention(data)])
            ELSE contacts
        threw == IF ~callSaved THEN "saveCall"
                 ELSE IF structuredData = {} THEN "none"
                 ELSE IF ~sdSaved THEN "saveStructuredData"
                 ELSE IF Truthy(callerPhone) /\ ~contactSaved THEN "updateContact"
                 ELSE "none"
    IN /\ calls' = callsAfter
       /\ call_structured_data' = sdAfter
       /\ contacts' = contactsAfter
       /\ last' = [endpoint |-> "webhook", type |-> "end-of-call-report",
                   callId |-> message.callId, summary |-> message.summary,
                   status |-> message.status,
                   priorSummaries |-> {r.summary : r \in {c \in calls : c.id = message.callId}},
                   structured |-> structuredData # {},
                   message |-> message,
                   fault |-> fault,
                   threw |-> threw]
       /\ response' = reportReply(threw)

ReportFaults == {"none", "saveCall", "saveStructuredData", "updateContact"}

EndOfCallReport ==
    /\ delivered < MaxDeliveries
    /\ \E message \in EndOfCallReportMessages, fault \in ReportFaults :
          handleEndOfCallReport(message, fault)
    /\ delivered' = delivered + 1
    /\ UNCHANGED <<clock, inflight, clients, client_phone_numbers, callback_requests, controlPosts>>

(* The missing client answered like an unknown message type. *)
clientNotFoundReply_Acknowledged == Ack

clientNotFoundReply ==
    [status |-> 404, body |-> [error |-> "Client not found for this phone number"]]

(* The check of vapi_assistant_id left out: the configuration is sent without an assistant. *)
assistantNotConfiguredReply_Unchecked(client) ==
    [status |-> 200,
     body |-> [assistantId |-> client.vapi_assistant_id,
               assistantOverrides |-> [firstMessage |-> <<"Thanks for calling ", client.name>>]]]

assistantNotConfiguredReply(client) ==
    [status |-> 500,
     body |-> [error |-> "Assistant not configured. Run sync script.",
               command |-> <<"npm run vapi:sync-assistants -- --client=", client.id>>]]

(* The reply of the catch block of handleAssistantRequest. *)
assistantRequestFailedReply(message) ==
    [status |-> 500,
     body |-> [error |-> "Failed to load assistant configuration", details |-> message]]

(* handleAssistantRequest: resolve the client, look the caller up, build the overrides. *)
handleAssistantRequest(phoneNumberId, customerNumber, now, fault) ==
    LET callerNumber == IF Truthy(customerNumber) THEN customerNumber ELSE "unknown"
        found == getClientByPhoneNumberId(clients, client_phone_numbers, phoneNumberId)
        client == CHOOSE c \in found : TRUE
        callerHistory == getContact(contacts, callerNumber)
        context == buildDynamicContext(contacts, callerNumber, now, fault)
        firstMessage == buildFirstMessage(client.name, callerHistory, context.isAfterHours)
        request == [endpoint |-> "webhook", type |-> "assistant-request",
                    phoneNumberId |-> phoneNumberId, callerNumber |-> callerNumber,
                    now |-> now, fault |-> fault,
                    mapped |-> \E m \in client_phone_numbers :
                                   m.vapi_phone_number_id = phoneNumberId]
    IN IF fault = "getClientByPhoneNumberId"
       THEN /\ response' = assistantRequestFailedReply(<<"store error in ", fault>>)
            /\ last' = request @@ [client |-> NULL, assistantId |-> NULL]
       ELSE IF found = {}
       THEN /\ response' = clientNotFoundReply
            /\ last' = request @@ [client |-> NULL, assistantId |-> NULL]
       ELSE IF ~Truthy(client.vapi_assistant_id)
       THEN /\ response' = assistantNotConfiguredReply(client)
            /\ last' = request @@ [client |-> client.id, assistantId |-> NULL]
       ELSE IF fault \in {"getContact", "getClientById"}
       THEN /\ response' = assistantRequestFailedReply(<<"store error in ", fault>>)
            /\ last' = request @@ [client |-> client.id, assistantId |-> client.vapi_assistant_id]
       ELSE /\ response' =
                [status |-> 200,
                 body |-> [assistantId |-> client.vapi_assistant_id,
                           assistantOverrides |->
                               [firstMessage |-> firstMessage,
                                model |-> [provider |-> "groq", model |-> "llama3-70b-8192",
                                           messages |-> <<[role |-> "system",
                                                           content |-> context.contextMessage]>>]]]]
            /\ last' = request @@ [client |-> client.id, assistantId |-> client.vapi_assistant_id]

RequestFaults == {"none", "getClientByPhoneNumberId", "getContact", "getClientById"}

AssistantRequest ==
    /\ delivered < MaxDeliveries
    /\ \E phoneNumberId \in PhoneLineIds, customerNumber \in {KnownPhone, NULL},
          now \in Instants, fault \in RequestFaults :
          handleAssistantRequest(phoneNumberId, customerNumber, now, fault)
    /\ delivered' = delivered + 1
    /\ UNCHANGED <<clock, inflight, storeVars, configVars>>

(* handleStatusUpdate recording the status it is told in the Call row of the call. *)
StatusUpdate_StoresStatus ==
    /\ delivered < MaxDeliveries
    /\ \E status \in CallStatuses, artifacts \in BOOLEAN, id \in CallIds :
          /\ last' = [endpoint |-> "webhook", type |-> "status-update",
                      logged |-> (status = "ended" /\ artifacts)]
          /\ calls' = saveCall(calls, [id |-> id, phoneNumberId |-> NULL, callerPhone |-> NULL,
                                       status |-> status, summary |-> NULL,
                                       successScore |-> NULLNUM])
    /\ response' = Ack
    /\ delivered' = delivered + 1
    /\ UNCHANGED <<clock, inflight, call_structured_data, contacts, callback_requests, controlPosts,
                   configVars>>

(* handleStatusUpdate: log the debugging artifacts of an ended call, acknowledge. *)
StatusUpdate ==
    /\ delivered < MaxDeliveries
    /\ \E status \in CallStatuses, artifacts \in BOOLEAN :
          last' = [endpoint |-> "webhook", type |-> "status-update",
                   logged |-> (status = "ended" /\ artifacts)]
    /\ response' = Ack
    /\ delivered' = delivered + 1
    /\ UNCHANGED <<clock, inflight, storeVars, configVars>>

(* The cases of the switch that only acknowledge. *)
AcknowledgedTypes == {"assistant.started", "conversation-update", "speech-update"}

Acknowledge ==
    /\ delivered < MaxDeliveries
    /\ \E type \in AcknowledgedTypes : last' = [endpoint |-> "webhook", type |-> type]
    /\ response' = Ack
    /\ delivered' = delivered + 1
    /\ UNCHANGED <<clock, inflight, storeVars, configVars>>

(* The default case of the switch: message types the handler does not know. *)
OtherTypes == {"transcript", "hang"}

(* The default case failing closed on a type it does not know. *)
DefaultCase_Rejects ==
    /\ delivered < MaxDeliveries
    /\ \E type \in OtherTypes : last' = [endpoint |-> "webhook", type |-> type]
    /\ response' = [status |-> 400, body |-> [error |-> "Unknown message type"]]
    /\ delivered' = delivered + 1
    /\ UNCHANGED <<clock, inflight, storeVars, configVars>>

DefaultCase ==
    /\ delivered < MaxDeliveries
    /\ \E type \in OtherTypes : last' = [endpoint |-> "webhook", type |-> type]
    /\ response' = Ack
    /\ delivered' = delivered + 1
    /\ UNCHANGED <<clock, inflight, storeVars, configVars>>

(* A payload without message.type. *)
NoMessageType ==
    /\ delivered < MaxDeliveries
    /\ last' = [endpoint |-> "webhook", type |-> NULL]
    /\ response' = [status |-> 400, body |-> [error |-> "No message type"]]
    /\ delivered' = delivered + 1
    /\ UNCHANGED <<clock, inflight, storeVars, configVars>>

-----------------------------------------------------------------------------
(* Equipment lookup.  Texts are sequences of characters. *)

UpperCase == <<"A", "B", "C", "D", "E", "F", "G", "H", "I", "J", "K", "L", "M",
               "N", "O", "P", "Q", "R", "S", "T", "U", "V", "W", "X", "Y", "Z">>

LowerCase == <<"a", "b", "c", "d", "e", "f", "g", "h", "i", "j", "k", "l", "m",
               "n", "o", "p", "q", "r", "s", "t", "u", "v", "w", "x", "y", "z">>

toLowerCase(text) ==
    [i \in 1..Len(text) |->
        IF \E k \in 1..26 : UpperCase[k] = text[i]
        THEN LowerCase[CHOOSE k \in 1..26 : UpperCase[k] = text[i]]
        ELSE text[i]]

includes(text, part) ==
    \E i \in 0..(Len(text) - Len(part)) : SubSeq(text, i + 1, i + Len(part)) = part

INVENTORY ==
    << [model |-> <<"C", "a", "t", " ", "3", "3", "6">>,
        category |-> <<"E", "x", "c", "a", "v", "a", "t", "o", "r">>,
        available |-> 2, price_per_day |-> 1200],
       [model |-> <<"C", "a", "t", " ", "3", "2", "0">>,
        category |-> <<"E", "x", "c", "a", "v", "a", "t", "o", "r">>,
        available |-> 3, price_per_day |-> 950],
       [model |-> <<"C", "a", "t", " ", "D", "6">>,
        category |-> <<"D", "o", "z", "e", "r">>,
        available |-> 0, price_per_day |-> 900] >>

InventoryQueries ==
    { <<"e", "x", "c", "a", "v", "a", "t", "o", "r">>,
      <<"D", "6">>,
      <<"c", "r", "a", "n", "e">> }

(* The items whose model or category contains the query, in table order. *)
search(query) ==
    IF query = <<>>
    THEN <<>>
    ELSE SelectSeq(INVENTORY,
                   LAMBDA item : \/ includes(toLowerCase(item.model), toLowerCase(query))
                                 \/ includes(toLowerCase(item.category), toLowerCase(query)))

formatResults(items) ==
    [i \in 1..Len(items) |->
        <<items[i].model, " (", items[i].available, " available at $",
          items[i].price_per_day, "/day)">>]

searchAndFormat(query) ==
    LET matches == search(query)
    IN IF Len(matches) > 0
       THEN <<"We have the following available: ", formatResults(matches)>>
       ELSE <<"I checked the lot, but I don't see any ", query, " available right now.">>

-----------------------------------------------------------------------------
(* Tool endpoint. *)

EmptyArgs == [k \in {} |-> NULL]

(* args.key: the value, or undefined. *)
Arg(args, key) == IF key \in DOMAIN args THEN args[key] ELSE NULL

(* A lenient parser that keeps the members it could read before the text went wrong. *)
parseArguments_Lenient(arguments) ==
    IF "object" \in DOMAIN arguments
    THEN arguments.object
    ELSE IF arguments.string.wellFormed THEN arguments.string.value
         ELSE arguments.string.partial

(* toolCall.function.arguments: an object, or a string that JSON.parse accepts (its   *)
(* value) or rejects (partial: the members written in the text before it goes wrong). *)
parseArguments(arguments) ==
    IF "object" \in DOMAIN arguments
    THEN arguments.object
    ELSE IF arguments.string.wellFormed THEN arguments.string.value ELSE EmptyArgs

RegisteredTools == {"check_inventory", "transfer_call", "schedule_callback"}

AsyncTools == {"transfer_call"}

(* The dispatcher's catch block answering as if the tool had been started. *)
ToolError_Acknowledged(message) == Ack

ToolError(message) ==
    [status |-> 500, body |-> [error |-> "Tool execution failed", details |-> message]]

ToolResults(toolCallId, result) ==
    [status |-> 200, body |-> [results |-> <<[toolCallId |-> toolCallId, result |-> result]>>]]

(* An async handler started without await: its rejection never reaches the catch block. *)
dispatchReply_NotAwaited(toolCallId, isAsync, threw, result) ==
    IF isAsync THEN Ack
    ELSE IF threw # <<>> THEN ToolError(threw) ELSE ToolResults(toolCallId, result)

(* The reply of the dispatcher once the handler has thrown (threw # <<>>) or returned. *)
dispatchReply(toolCallId, isAsync, threw, result) ==
    IF threw # <<>>
    THEN ToolError(threw)
    ELSE IF isAsync THEN Ack ELSE ToolResults(toolCallId, result)

(* The department map falling back to the sales line when the department has no number. *)
departmentPhone_SalesFallback(client, department) ==
    LET number == CASE department = "sales" -> client.sales_phone
                    [] department = "rentals" -> client.rentals_phone
                    [] department = "service" -> client.service_phone
                    [] department = "parts" -> client.parts_phone
                    [] department = "billing" -> client.billing_phone
                    [] OTHER -> NULL
    IN IF Truthy(number) THEN number ELSE client.sales_phone

(* client[department + "_phone"] for the five departments of the map, undefined otherwise. *)
departmentPhone(client, department) ==
    CASE department = "sales" -> client.sales_phone
      [] department = "rentals" -> client.rentals_phone
      [] department = "service" -> client.service_phone
      [] department = "parts" -> client.parts_phone
      [] department = "billing" -> client.billing_phone
      [] OTHER -> NULL

(* handleTransferCall: what it throws (<<>> when it returns) and the command it posts. *)
handleTransferCall(call, args, fault) ==
    LET department == Arg(args, "department")
        reason == Arg(args, "reason")
        urgency == IF Arg(args, "urgency") = NULL THEN "medium" ELSE Arg(args, "urgency")
        callerNumber == IF Truthy(call.customerNumber) THEN call.customerNumber ELSE "Unknown"
        customer == IF fault = "getContact" THEN {} ELSE getContact(contacts, callerNumber)
        callerName == IF customer # {}
                      THEN LET c == CHOOSE x \in customer : TRUE
                           IN <<c.name, " from ", c.company>>
                      ELSE <<"Unknown caller">>
        found == getClientByPhoneNumberId(clients, client_phone_numbers, call.phoneNumberId)
        client == CHOOSE c \in found : TRUE
        destinationNumber == departmentPhone(client, department)
        command == [url |-> call.controlUrl,
                    type |-> "transfer",
                    destination |->
                        [type |-> "number", number |-> destinationNumber,
                         message |-> <<"Transfer from ", client.name, " receptionist. ",
                                       callerName, ". ", reason, ". Urgency: ", urgency, ".">>],
                    content |-> IF urgency = "critical"
                                THEN <<"Connecting you to ", department, " immediately.">>
                                ELSE <<"Perfect, connecting you to ", department,
                                       " now. They'll be right with you.">>]
    IN IF ~Truthy(call.controlUrl)
       THEN [threw |-> <<"Control URL not available for transfer">>, posted |-> <<>>,
             client |-> {}]
       ELSE IF fault = "getClientByPhoneNumberId"
       THEN [threw |-> <<"store error in ", fault>>, posted |-> <<>>, client |-> {}]
       ELSE IF found = {}
       THEN [threw |-> <<"Client not found for this phone number">>, posted |-> <<>>,
             client |-> {}]
       ELSE IF ~Truthy(destinationNumber)
       THEN [threw |-> <<"Transfer destination not configured for ", department>>,
             posted |-> <<>>, client |-> found]
       ELSE IF fault = "transfer"
       THEN [threw |-> <<"Request failed">>, posted |-> <<command @@ [accepted |-> FALSE]>>,
             client |-> found]
       ELSE [threw |-> <<>>, posted |-> <<command @@ [accepted |-> TRUE]>>, client |-> found]

(* The missing client raised, as handleTransferCall raises it. *)
callbackClientNotFound_Throws ==
    [threw |-> <<"Client not found for this phone number">>, result |-> <<>>]

(* if (!client): handleScheduleCallback returns a string for the agent to speak. *)
callbackClientNotFound ==
    [threw |-> <<>>,
     result |-> <<"I've noted your callback request, but there was an issue on our end. Please try calling back during business hours.">>]

(* handleScheduleCallback: the string it returns, what it throws, the rows it leaves. *)
handleScheduleCallback(call, args, fault) ==
    LET found == getClientByPhoneNumberId(clients, client_phone_numbers, call.phoneNumberId)
        client == CHOOSE c \in found : TRUE
        data == [clientId |-> client.id,
                 customerName |-> Arg(args, "customer_name"),
                 customerPhone |-> Arg(args, "customer_phone"),
                 preferredTime |-> Arg(args, "preferred_time"),
                 reason |-> Arg(args, "reason"),
                 department |-> Arg(args, "department")]
    IN IF fault = "getClientByPhoneNumberId"
       THEN [threw |-> <<"store error in ", fault>>, result |-> <<>>,
             rows |-> callback_requests, attempted |-> FALSE, saved |-> FALSE, client |-> {}]
       ELSE IF found = {}
       THEN callbackClientNotFound
            @@ [rows |-> callback_requests, attempted |-> FALSE, saved |-> FALSE, client |-> {}]
       ELSE IF fault = "saveCallbackRequest" \/ ~CallbackCheck(data)
       THEN [threw |-> <<>>,
             result |-> <<"Got it, I've made a note of that. Someone will give you a call back during business hours.">>,
             rows |-> callback_requests, attempted |-> TRUE, saved |-> FALSE,
             client |-> found]
       ELSE [threw |-> <<>>,
             result |-> <<"Got it! I've got you down for a callback ", data.preferredTime,
                          ". Someone from ", data.department,
                          " will give you a call then. Anything else you want me to pass along to them?">>,
             rows |-> saveCallbackRequest(callback_requests, data), attempted |-> TRUE,
             saved |-> TRUE, client |-> found]

(* handleCheckInventory: args.query || "" handed to the equipment lookup. *)
handleCheckInventory(args) ==
    searchAndFormat(IF Truthy(Arg(args, "query")) THEN Arg(args, "query") ELSE <<>>)

(* The route's reply: the 200 response schema of POST /tools is an object with the    *)
(* one property results, an array of objects with the properties toolCallId and       *)
(* result; the serializer compiled from it writes the listed properties that are      *)
(* present and drops every other one.  Replies of another status are not filtered.    *)
toolsRouteReply(reply) ==
    IF reply.status # 200
    THEN reply
    ELSE [status |-> 200,
          body |-> IF "results" \in DOMAIN reply.body
                   THEN [results |-> [i \in 1..Len(reply.body.results) |->
                                         [toolCallId |-> reply.body.results[i].toolCallId,
                                          result |-> reply.body.results[i].result]]]
                   ELSE EmptyArgs]

(* The dispatcher taking the most recent tool call of the batch. *)
selectedToolCall_Last(toolCalls) == toolCalls[Len(toolCalls)]

(* message.toolCalls[0]: the tool call the dispatcher works on. *)
selectedToolCall(toolCalls) == toolCalls[1]

(* handleToolExecution: first tool call of the batch, registry lookup, handler, reply. *)
handleToolExecution(toolCalls, call, fault) ==
    LET toolCall == selectedToolCall(toolCalls)
        functionName == toolCall.name
        args == parseArguments(toolCall.arguments)
        transfer == handleTransferCall(call, args, fault)
        callback == handleScheduleCallback(call, args, fault)
        request == [endpoint |-> "tools", name |-> functionName, toolCallId |-> toolCall.id,
                    batch |-> Len(toolCalls), args |-> args, call |-> call, fault |-> fault,
                    malformed |-> /\ "string" \in DOMAIN toolCall.arguments
                                  /\ ~toolCall.arguments.string.wellFormed,
                    ids |-> [i \in 1..Len(toolCalls) |-> toolCalls[i].id],
                    names |-> [i \in 1..Len(toolCalls) |-> toolCalls[i].name]]
    IN IF Len(toolCalls) = 0
       THEN /\ response' = toolsRouteReply([status |-> 200,
                                             body |-> [error |-> "No tool calls found"]])
            /\ last' = [endpoint |-> "tools", name |-> NULL, batch |-> 0, handler |-> NULL]
            /\ UNCHANGED <<callback_requests, controlPosts>>
       ELSE IF functionName \notin RegisteredTools
       THEN /\ response' = toolsRouteReply(
                               ToolResults(toolCall.id,
                                           <<"Error: Tool '", functionName, "' not found.">>))
            /\ last' = request @@ [handler |-> NULL, threw |-> <<>>]
            /\ UNCHANGED <<callback_requests, controlPosts>>
       ELSE IF functionName = "check_inventory"
       THEN /\ response' = toolsRouteReply(
                               dispatchReply(toolCall.id, functionName \in AsyncTools, <<>>,
                                             handleCheckInventory(args)))
            /\ last' = request @@ [handler |-> functionName, threw |-> <<>>]
            /\ UNCHANGED <<callback_requests, controlPosts>>
       ELSE IF functionName = "transfer_call"
       THEN /\ response' = toolsRouteReply(
                               dispatchReply(toolCall.id, functionName \in AsyncTools,
                                             transfer.threw, <<>>))
            /\ last' = request @@ [handler |-> functionName, threw |-> transfer.threw,
                                   posted |-> transfer.posted, client |-> transfer.client]
            /\ controlPosts' = controlPosts \o transfer.posted
            /\ UNCHANGED callback_requests
       ELSE /\ response' = toolsRouteReply(
                               dispatchReply(toolCall.id, functionName \in AsyncTools,
                                             callback.threw, callback.result))
            /\ last' = request @@ [handler |-> functionName, threw |-> callback.threw,
                                   attempted |-> callback.attempted,
                                   saved |-> callback.saved, client |-> callback.client,
                                   created |-> callback.rows \ callback_requests]
            /\ callback_requests' = callback.rows
            /\ UNCHANGED controlPosts

(* The requests the tool endpoint is driven with. *)
InventoryArguments ==
    { [object |-> [query |-> q]] : q \in InventoryQueries }
    \cup { [string |-> [wellFormed |-> TRUE, value |-> [query |-> <<"D", "6">>]]],
           [string |-> [wellFormed |-> FALSE, partial |-> [query |-> <<"D", "6">>]]] }

TransferArguments ==
    { [object |-> [department |-> d, reason |-> "wants a quote"]] :
          d \in {"sales", "service", "rentals"} }
    \cup { [string |-> [wellFormed |-> FALSE, partial |-> [department |-> "sales"]]] }

CallbackArguments ==
    { [object |-> [customer_name |-> "Bob", customer_phone |-> UnknownPhone,
                   preferred_time |-> "tomorrow at 9am", reason |-> "needs a dozer",
                   department |-> "sales"]],
      [string |-> [wellFormed |-> TRUE,
                   value |-> [customer_name |-> "Bob", customer_phone |-> UnknownPhone,
                              preferred_time |-> "Monday at 2pm", reason |-> "needs a dozer",
                              department |-> "rentals"]]],
      [object |-> [preferred_time |-> "tomorrow at 9am", department |-> "sales"]],
      [object |-> [customer_name |-> "Bob", customer_phone |-> UnknownPhone,
                   preferred_time |-> "yesterday at 9am", reason |-> "needs a dozer",
                   department |-> "sales"]],
      [string |-> [wellFormed |-> FALSE,
                   partial |-> [customer_name |-> "Bob", customer_phone |-> UnknownPhone,
                                preferred_time |-> "tomorrow at 9am"]]] }

ToolCalls ==
    [id : {"tc-1"}, name : {"check_inventory"}, arguments : InventoryArguments]
    \cup [id : {"tc-1"}, name : {"transfer_call"}, arguments : TransferArguments]
    \cup [id : {"tc-1"}, name : {"schedule_callback"}, arguments : CallbackArguments]
    \cup [id : {"tc-1"}, name : {"unknown_function"},
          arguments : {[object |-> [query |-> <<"t", "e", "s", "t">>]]}]

(* A second tool call of a batch. *)
SecondToolCall ==
    [id |-> "tc-2", name |-> "schedule_callback",
     arguments |-> [object |-> [customer_name |-> "Ann", customer_phone |-> KnownPhone,
                                preferred_time |-> "Friday at 10am", reason |-> "invoice",
                                department |-> "billing"]]]

ToolBatches ==
    {<<>>} \cup {<<c>> : c \in ToolCalls} \cup {<<c, SecondToolCall>> : c \in ToolCalls}

ToolCallContexts ==
    [phoneNumberId : PhoneLineIds, customerNumber : {KnownPhone},
     controlUrl : {NULL, "https://control.example/call-1"}]

(* The collaborators a handler reaches, each of which may fail. *)
ToolFaults(toolCalls) ==
    IF Len(toolCalls) = 0 THEN {"none"}
    ELSE CASE toolCalls[1].name = "transfer_call" ->
                  {"none", "getContact", "getClientByPhoneNumberId", "transfer"}
           [] toolCalls[1].name = "schedule_callback" ->
                  {"none", "getClientByPhoneNumberId", "saveCallbackRequest"}
           [] OTHER -> {"none"}

ToolExecution ==
    /\ delivered < MaxDeliveries
    /\ \E toolCalls \in ToolBatches, call \in ToolCallContexts :
          \E fault \in ToolFaults(toolCalls) :
              handleToolExecution(toolCalls, call, fault)
    /\ delivered' = delivered + 1
    /\ UNCHANGED <<clock, inflight, calls, call_structured_data, contacts, configVars>>

-----------------------------------------------------------------------------
(* Client configuration: the portal's save and sync, and the onboarding script. *)

PortalSalesPhones == {NULL, "+16025550101"}

(* saveClientConfig: upsert the portal client, map the phone line when one is given. *)
SaveClientConfig ==
    /\ delivered < MaxDeliveries
    /\ delivered' = delivered + 1
    /\ \E salesPhone \in PortalSalesPhones, vapiPhoneNumberId \in PhoneLineIds \cup {NULL} :
          /\ clients' = upsertClient(clients,
                            [id |-> PortalClientId, name |-> "Tex Intel",
                             salesPhone |-> salesPhone, servicePhone |-> "+16025550102",
                             partsPhone |-> NULL])
          /\ client_phone_numbers' =
                IF Truthy(vapiPhoneNumberId)
                THEN addClientPhoneNumber(client_phone_numbers, PortalClientId, vapiPhoneNumberId)
                ELSE client_phone_numbers
    /\ UNCHANGED <<clock, inflight, storeVars, last, response>>

(* syncAssistant: create the assistant of the portal client when it has none. *)
SyncAssistant ==
    /\ delivered < MaxDeliveries
    /\ delivered' = delivered + 1
    /\ \E c \in getClientById(clients, PortalClientId) : ~Truthy(c.vapi_assistant_id)
    /\ clients' = updateClientAssistantId(clients, PortalClientId, "asst-portal")
    /\ UNCHANGED <<clock, inflight, storeVars, client_phone_numbers, last, response>>

(* saveClientToDatabase: upsert the client, link its assistant, map its phone line. *)
SaveClientToDatabase ==
    /\ delivered < MaxDeliveries
    /\ delivered' = delivered + 1
    /\ \E vapiPhoneNumberId \in PhoneLineIds :
          /\ clients' = updateClientAssistantId(
                            upsertClient(clients,
                                [id |-> DefaultClientId, name |-> "Tex Intel Primary",
                                 salesPhone |-> "+16025550201", servicePhone |-> NULL,
                                 partsPhone |-> "+16025550203"]),
                            DefaultClientId, "asst-primary")
          /\ client_phone_numbers' =
                addClientPhoneNumber(client_phone_numbers, DefaultClientId, vapiPhoneNumberId)
    /\ UNCHANGED <<clock, inflight, storeVars, last, response>>

-----------------------------------------------------------------------------

(* Requests that can be in the handler at the same time. *)
Deliveries == {"d1", "d2"}

(* A request slot before its report arrives. *)
Idle == [pc |-> "idle", message |-> {}, seen |-> {}, threw |-> "none", wrote |-> 0]

Init ==
    /\ calls = {}
    /\ call_structured_data = {}
    /\ contacts = SeedContacts
    /\ clients = SeedClients
    /\ client_phone_numbers = {}
    /\ callback_requests = {}
    /\ controlPosts = <<>>
    /\ delivered = 0
    /\ last = NoRequest
    /\ response = NoResponse
    /\ inflight = [d \in Deliveries |-> Idle]
    /\ clock = [day |-> 1, hour |-> 10]

Next ==
    \/ EndOfCallReport
    \/ AssistantRequest
    \/ StatusUpdate
    \/ Acknowledge
    \/ DefaultCase
    \/ NoMessageType
    \/ SaveClientConfig
    \/ SyncAssistant
    \/ SaveClientToDatabase

Spec == Init /\ [][Next]_vars

(* The webhook endpoint on a store whose client configuration stays as seeded. *)
NextWebhook ==
    \/ EndOfCallReport
    \/ AssistantRequest
    \/ StatusUpdate
    \/ Acknowledge
    \/ DefaultCase
    \/ NoMessageType

SpecWebhook == Init /\ [][NextWebhook]_vars

(* saveCall as the store's own operation, called with any call data. *)
CallDataInputs ==
    [id : CallIds, phoneNumberId : {NULL}, callerPhone : {NULL}, status : StatusInputs,
     summary : Summaries \cup {NULL}, successScore : {NULLNUM, 8, 80}]

SaveCall ==
    /\ \E callData \in CallDataInputs :
          LET accepted == CallsCheck(CallRow(callData))
          IN /\ calls' = saveCallStatement(calls, callData, accepted)
             /\ call_structured_data' =
                    IF accepted THEN CascadeDeleteCall(call_structured_data, callData.id)
                    ELSE call_structured_data
             /\ last' = [endpoint |-> "store", op |-> "saveCall", id |-> callData.id,
                         status |-> callData.status,
                         priorRows |-> {c \in calls : c.id = callData.id},
                         threw |-> ~accepted]
    /\ UNCHANGED <<clock, inflight, contacts, callback_requests, controlPosts, configVars, delivered, response>>

(* saveStructuredData as the store's own operation, called for any call id. *)
SaveStructuredData ==
    /\ \E callId \in CallIds, data \in StructuredResults :
          LET accepted == StructuredCheck(calls, StructuredRow(callId, data))
          IN /\ call_structured_data' =
                    IF accepted THEN saveStructuredData(call_structured_data, callId, data)
                    ELSE call_structured_data
             /\ last' = [endpoint |-> "store", op |-> "saveStructuredData", id |-> callId,
                         threw |-> ~accepted]
    /\ UNCHANGED <<clock, inflight, calls, contacts, callback_requests, controlPosts, configVars,
                   delivered, response>>

NextStore == SaveCall \/ SaveStructuredData

SpecStore == Init /\ [][NextStore]_vars

(* updateContact as the store's own operation, called with any contact data. *)
ContactDataInputs ==
    [name : {NULL, "", "Bob"}, company : {NULL, "Acme"}, email : {NULL, "bob@acme.test"},
     lastMachine : {NULL, "Cat D6"}]

UpdateContact ==
    /\ delivered < MaxDeliveries
    /\ \E phoneNumber \in Phones, data \in ContactDataInputs :
          /\ contacts' = updateContact(contacts, phoneNumber, data)
          /\ last' = [endpoint |-> "store", op |-> "updateContact", phone |-> phoneNumber,
                      data |-> data, prior |-> getContact(contacts, phoneNumber)]
    /\ delivered' = delivered + 1
    /\ UNCHANGED <<clock, inflight, calls, call_structured_data, callback_requests, controlPosts, configVars,
                   response>>

NextContacts == UpdateContact

(* buildDynamicContext called for any caller and tenant; it throws when the tenant    *)
(* lookup does and survives a failing caller lookup.                                  *)
ContextFaults == {"none", "getContact", "getClientById"}

BuildContext ==
    /\ delivered < MaxDeliveries
    /\ \E callerPhone \in Phones, clientId \in ClientIds, now \in Instants,
          fault \in ContextFaults :
          last' = [endpoint |-> "context", callerPhone |-> callerPhone, clientId |-> clientId,
                   now |-> now, fault |-> fault,
                   history |-> getContact(contacts, callerPhone)]
                  @@ (IF fault = "getClientById"
                      THEN [threw |-> TRUE]
                      ELSE [threw |-> FALSE]
                           @@ buildContextVariables(contacts, callerPhone, now, fault))
    /\ delivered' = delivered + 1
    /\ UNCHANGED <<clock, inflight, storeVars, configVars, response>>

(* The Caller Directory being updated and the context being built from it. *)
NextContext == UpdateContact \/ BuildContext

SpecContext == Init /\ [][NextContext]_vars

SpecContacts == Init /\ [][NextContacts]_vars

(* getBusinessHoursInfo called at an instant of the week on a server in some zone. *)
BusinessHours ==
    /\ \E now \in CalendarInstants, serverOffset \in ServerOffsets :
          last' = [endpoint |-> "calendar", now |-> now, serverOffset |-> serverOffset]
                  @@ getBusinessHoursInfoAt(now, serverOffset)
    /\ UNCHANGED <<clock, delivered, inflight, storeVars, configVars, response>>

NextCalendar == BusinessHours

SpecCalendar == Init /\ [][NextCalendar]_vars

-----------------------------------------------------------------------------
(* handleEndOfCallReport one await at a time, for requests handled concurrently. *)

(* The argument handleEndOfCallReport hands to saveCall. *)
reportCallData(message) ==
    [id |-> message.callId,
     phoneNumberId |-> NULL,
     callerPhone |-> message.customerNumber,
     status |-> message.status,
     summary |-> message.summary,
     successScore |-> parseSuccessScore(message.successEvaluation)]

(* structuredData.caller?.phone || call?.customer?.number *)
reportCallerPhone(message, data) ==
    IF Truthy(data.caller.phone) THEN data.caller.phone ELSE message.customerNumber

(* The argument handleEndOfCallReport hands to updateContact. *)
reportContactData(data) ==
    [name |-> data.caller.name, company |-> data.caller.company,
     email |-> data.caller.email, lastMachine |-> machineMention(data)]

ConcurrentResults ==
    StructuredResults \cup
    { [caller |-> [name |-> "Ann", company |-> "Acme", phone |-> NULL, email |-> NULL],
       intent |-> [category |-> "service"],
       machine |-> [make |-> NULL, model |-> NULL, category |-> "Dozer"]] }

(* The summary tells the two requests apart. *)
DeliverySummary(d) == IF d = "d1" THEN "first summary" ELSE "second summary"

ConcurrentMessages(d) ==
    [callId : CallIds, status : ReportStatuses, customerNumber : Phones,
     summary : {DeliverySummary(d)}, successEvaluation : {<<"8", "/", "1", "0">>},
     structuredOutputs : {<<>>} \cup {<<[result |-> r]>> : r \in ConcurrentResults}]

MessageOf(d) == CHOOSE m \in inflight[d].message : TRUE

StructuredOf(d) == extractStructuredData(MessageOf(d).structuredOutputs)

DataOf(d) == CHOOSE x \in StructuredOf(d) : TRUE

(* The report arrives and the handler runs up to its first await. *)
Receive(d) ==
    /\ inflight[d].pc = "idle"
    /\ \E message \in ConcurrentMessages(d) :
          inflight' = [inflight EXCEPT ![d] = [@ EXCEPT !.pc = "saveCall",
                                                        !.message = {message}]]
    /\ UNCHANGED <<clock, storeVars, configVars, delivered, last, response>>

(* await databaseService.saveCall(...) *)
StepSaveCall(d) ==
    /\ inflight[d].pc = "saveCall"
    /\ LET callData == reportCallData(MessageOf(d))
           accepted == CallsCheck(CallRow(callData))
       IN /\ calls' = saveCallStatement(calls, callData, accepted)
          /\ call_structured_data' =
                 IF accepted THEN CascadeDeleteCall(call_structured_data, callData.id)
                 ELSE call_structured_data
          /\ inflight' = [inflight EXCEPT ![d] =
                 IF ~accepted THEN [@ EXCEPT !.pc = "reply", !.threw = "saveCall"]
                 ELSE IF StructuredOf(d) = {} THEN [@ EXCEPT !.pc = "reply"]
                 ELSE [@ EXCEPT !.pc = "saveStructuredData"]]
    /\ UNCHANGED <<clock, contacts, callback_requests, controlPosts, configVars, delivered, last,
                   response>>

(* await databaseService.saveStructuredData(...) *)
StepSaveStructuredData(d) ==
    /\ inflight[d].pc = "saveStructuredData"
    /\ LET row == StructuredRow(MessageOf(d).callId, DataOf(d))
           accepted == StructuredCheck(calls, row)
       IN /\ call_structured_data' =
                 IF accepted
                 THEN saveStructuredData(call_structured_data, MessageOf(d).callId, DataOf(d))
                 ELSE call_structured_data
          /\ inflight' = [inflight EXCEPT ![d] =
                 IF ~accepted THEN [@ EXCEPT !.pc = "reply", !.threw = "saveStructuredData"]
                 ELSE IF ~Truthy(reportCallerPhone(MessageOf(d), DataOf(d)))
                 THEN [@ EXCEPT !.pc = "reply"]
                 ELSE [@ EXCEPT !.pc = "selectContact"]]
    /\ UNCHANGED <<clock, calls, contacts, callback_requests, controlPosts, configVars, delivered,
                   last, response>>

(* updateContact: await db.get('SELECT * FROM contacts WHERE phone_number = ?') *)
StepSelectContact(d) ==
    /\ inflight[d].pc = "selectContact"
    /\ inflight' = [inflight EXCEPT ![d] =
           [@ EXCEPT !.pc = "writeContact",
                     !.seen = getContact(contacts, reportCallerPhone(MessageOf(d), DataOf(d)))]]
    /\ UNCHANGED <<clock, storeVars, configVars, delivered, last, response>>

(* updateContact: await db.run(UPDATE ...) or await db.run(INSERT ...) *)
StepWriteContact(d) ==
    /\ inflight[d].pc = "writeContact"
    /\ LET phoneNumber == reportCallerPhone(MessageOf(d), DataOf(d))
           accepted == inflight[d].seen # {} \/ ContactsUnique(contacts, phoneNumber)
           rank == 1 + Cardinality({e \in Deliveries : inflight[e].wrote > 0})
       IN /\ contacts' = IF accepted
                         THEN updateContactWrite(contacts, inflight[d].seen, phoneNumber,
                                                 reportContactData(DataOf(d)))
                         ELSE contacts
          /\ inflight' = [inflight EXCEPT ![d] =
                 [@ EXCEPT !.pc = "reply", !.wrote = rank,
                           !.threw = IF accepted THEN "none" ELSE "updateContact"]]
    /\ UNCHANGED <<clock, calls, call_structured_data, callback_requests, controlPosts, configVars,
                   delivered, last, response>>

(* return reply.send({ status: 'ok' }) *)
StepReply(d) ==
    /\ inflight[d].pc = "reply"
    /\ inflight' = [inflight EXCEPT ![d] = [@ EXCEPT !.pc = "done"]]
    /\ response' = reportReply(inflight[d].threw)
    /\ last' = [endpoint |-> "webhook", type |-> "end-of-call-report", delivery |-> d,
                callId |-> MessageOf(d).callId, threw |-> inflight[d].threw]
    /\ UNCHANGED <<clock, storeVars, configVars, delivered>>

NextConcurrent ==
    \E d \in Deliveries :
        \/ Receive(d)
        \/ StepSaveCall(d)
        \/ StepSaveStructuredData(d)
        \/ StepSelectContact(d)
        \/ StepWriteContact(d)
        \/ StepReply(d)

SpecConcurrent == Init /\ [][NextConcurrent]_vars

(* Time passes: the clock moves to another instant of the week. *)
Tick ==
    /\ \E now \in Instants : now # clock /\ clock' = now
    /\ UNCHANGED <<calls, call_structured_data, contacts, clients, client_phone_numbers,
                   callback_requests, controlPosts, delivered, last, response, inflight>>

(* The tool endpoint of an onboarded tenant, at any hour of the week. *)
NextAroundTheClock ==
    \/ ToolExecution
    \/ SaveClientToDatabase
    \/ Tick

SpecAroundTheClock == Init /\ [][NextAroundTheClock]_vars

NextTools ==
    \/ ToolExecution
    \/ SaveClientConfig
    \/ SyncAssistant
    \/ SaveClientToDatabase

SpecTools == Init /\ [][NextTools]_vars


-----------------------------------------------------------------------------
(* Properties. *)

OkAck == [status |-> 200, body |-> [status |-> "ok"]]

IsReport == last.endpoint = "webhook" /\ last.type = "end-of-call-report"

IsAssistantRequest == last.endpoint = "webhook" /\ last.type = "assistant-request"

IsToolCall == last.endpoint = "tools" /\ last.batch > 0

RowsOf(callId) == {c \in calls : c.id = callId}

(* C1: when an end-of-call-report arrives for a call id that already has a row with a *)
(* different summary, and no store operation fails, the store afterwards holds        *)
(* exactly one Call row for the id and its summary is the one just delivered.         *)
C1_SecondSummaryStored ==
    (/\ IsReport
     /\ last.fault = "none"
     /\ last.priorSummaries # {}
     /\ last.summary \notin last.priorSummaries)
    => (/\ Cardinality(RowsOf(last.callId)) = 1
        /\ \A r \in RowsOf(last.callId) : r.summary = last.summary)

C4_UnprovisionedTenantFails ==
    (IsAssistantRequest /\ last.client # NULL /\ last.assistantId = NULL)
    => (/\ response.status # 200
        /\ "error" \in DOMAIN response.body
        /\ "assistantId" \notin DOMAIN response.body
        /\ "assistantOverrides" \notin DOMAIN response.body)

(* The line of a request resolves to the portal client, which has no assistant yet. *)
C4_Witness ==
    /\ IsAssistantRequest
    /\ last.client = PortalClientId
    /\ last.assistantId = NULL
    /\ response.status = 500

C6_ToolNotFoundText ==
    (IsToolCall /\ last.name \notin RegisteredTools)
    => (/\ response.status = 200
        /\ "results" \in DOMAIN response.body
        /\ response.body.results[1].result = <<"Tool not found.">>
        /\ last.handler = NULL)

(* The number the client row holds for a department, read from the row itself. *)
NumberOnFile(client, department) ==
    IF department = "sales" THEN client.sales_phone
    ELSE IF department = "service" THEN client.service_phone
    ELSE IF department = "parts" THEN client.parts_phone
    ELSE IF department = "rentals" THEN client.rentals_phone
    ELSE IF department = "billing" THEN client.billing_phone
    ELSE NULL

IsTransfer == IsToolCall /\ last.handler = "transfer_call"

(* The success acknowledgement of an async tool as the endpoint delivers it: status   *)
(* 200 with neither results nor an error.                                             *)
AsyncAck ==
    /\ response.status = 200
    /\ "results" \notin DOMAIN response.body
    /\ "error" \notin DOMAIN response.body

(* The transfer found its tenant and the tenant has no number for the department asked for. *)
NoConfiguredNumber ==
    /\ IsTransfer
    /\ last.call.controlUrl # NULL
    /\ last.client # {}
    /\ \A c \in last.client : NumberOnFile(c, Arg(last.args, "department")) \in {NULL, ""}

(* C7: transfer_call is answered with the acknowledgement only if a transfer command  *)
(* was posted to the call's control URL and accepted; without a control URL, without  *)
(* a configured number, or when the post fails, the answer is an error and not the    *)
(* acknowledgement.                                                                   *)
C7_TransferAckOnlyWhenAccepted ==
    IsTransfer
    => /\ AsyncAck
          => (/\ last.call.controlUrl # NULL
              /\ Len(last.posted) = 1
              /\ last.posted[1].url = last.call.controlUrl
              /\ last.posted[1].accepted)
       /\ (last.call.controlUrl = NULL \/ NoConfiguredNumber \/ last.fault = "transfer")
          => (/\ response.status = 500
              /\ "error" \in DOMAIN response.body
              /\ ~AsyncAck)

(* A transfer has been posted, accepted and acknowledged. *)
C7_Witness ==
    /\ IsTransfer
    /\ AsyncAck
    /\ Len(last.posted) = 1
    /\ last.posted[1].accepted
    /\ Len(controlPosts) > 0

(* C8: when a registered handler throws, the answer is the error response: status     *)
(* 500 with an error and the thrown message, without results and not the              *)
(* acknowledgement.                                                                   *)
C8_HandlerExceptionIsError ==
    (IsToolCall /\ last.handler # NULL /\ last.threw # <<>>)
    => (/\ response.status = 500
        /\ "error" \in DOMAIN response.body
        /\ response.body.error = "Tool execution failed"
        /\ response.body.details = last.threw
        /\ "results" \notin DOMAIN response.body
        /\ ~AsyncAck)

(* The client lookup of schedule_callback has thrown and the answer is the error response. *)
C8_Witness ==
    /\ IsToolCall
    /\ last.handler = "schedule_callback"
    /\ last.threw # <<>>
    /\ response.status = 500

(* C9 as stated: a transfer_call for a department without a configured number is      *)
(* answered 200 with a result string for the agent.                                   *)
C9_ApologyReturned ==
    NoConfiguredNumber
    => (/\ response.status = 200
        /\ "results" \in DOMAIN response.body)

(* C9 amended: a transfer_call for a department without a configured number fails the *)
(* request: the answer is the error response naming the department, no transfer       *)
(* command is posted and no result string is returned.                                *)
C9_MissingNumberFails ==
    NoConfiguredNumber
    => (/\ response.status = 500
        /\ response.body.error = "Tool execution failed"
        /\ response.body.details =
               <<"Transfer destination not configured for ", Arg(last.args, "department")>>
        /\ last.posted = <<>>
        /\ "results" \notin DOMAIN response.body)

(* A transfer to rentals on a line whose tenant has no rentals number has been refused. *)
C9_Witness ==
    /\ NoConfiguredNumber
    /\ Arg(last.args, "department") = "rentals"
    /\ response.status = 500
    /\ controlPosts = <<>>

(* The result strings of schedule_callback that tell the caller someone will call back. *)
ConfirmsCallback(result) ==
    result[1] \in {"Got it! I've got you down for a callback ",
                   "Got it, I've made a note of that. Someone will give you a call back during business hours."}

(* C10: when schedule_callback could not persist the CallbackRequest, the answer does *)
(* not confirm the callback.                                                          *)
C10_FailedCallbackNotConfirmed ==
    (/\ IsToolCall
     /\ last.handler = "schedule_callback"
     /\ last.attempted
     /\ ~last.saved)
    => ~(/\ response.status = 200
         /\ "results" \in DOMAIN response.body
         /\ ConfirmsCallback(response.body.results[1].result))

(* C11 as stated: every batch of one or more tool calls is answered with exactly one  *)
(* result, whose toolCallId is the id of the first tool call.                         *)
C11_AlwaysOneResult ==
    IsToolCall
    => (/\ "results" \in DOMAIN response.body
        /\ Len(response.body.results) = 1
        /\ response.body.results[1].toolCallId = last.ids[1])

(* C11 amended: of a batch only the first tool call is looked up and executed; a      *)
(* response that carries results carries exactly one, with the id of the first tool   *)
(* call, and it does so exactly when the first tool is unregistered or is a sync tool *)
(* whose handler returned; an async tool is answered with the bare acknowledgement, a *)
(* handler that threw with the error response; the later tool calls of a batch leave  *)
(* no callback request and no transfer behind.                                        *)
C11_FirstToolCallOnly ==
    /\ IsToolCall
       => (/\ last.name = last.names[1]
           /\ last.toolCallId = last.ids[1]
           /\ last.handler \in {NULL, last.names[1]}
           /\ ("results" \in DOMAIN response.body)
              <=> (\/ last.handler = NULL
                   \/ (last.handler \notin AsyncTools /\ last.threw = <<>>))
           /\ "results" \in DOMAIN response.body
              => (/\ Len(response.body.results) = 1
                  /\ response.body.results[1].toolCallId = last.ids[1])
           /\ (last.handler \in AsyncTools /\ last.threw = <<>>) => AsyncAck
           /\ (last.handler # NULL /\ last.threw # <<>>) => response.status = 500)
    /\ \A r \in callback_requests : r.customer_name # SecondToolCall.arguments.object.customer_name

(* The first tool call of a batch of two has stored its callback; the second left nothing. *)
C11_Witness ==
    /\ IsToolCall
    /\ last.batch = 2
    /\ last.handler = "schedule_callback"
    /\ last.saved
    /\ response.body.results[1].toolCallId = "tc-1"
    /\ Cardinality(callback_requests) = 1

IsContactUpdate == last.endpoint = "store" /\ last.op = "updateContact"

(* C12 as stated: after a Contact update on an existing contact each field whose new  *)
(* value is null keeps its stored value and each field whose new value is not null    *)
(* holds the new value.                                                               *)
C12_NonNullOverwrites ==
    (IsContactUpdate /\ last.prior # {})
    => \A r \in getContact(contacts, last.phone) : \A old \in last.prior :
          /\ r.name = IF last.data.name = NULL THEN old.name ELSE last.data.name
          /\ r.company = IF last.data.company = NULL THEN old.company ELSE last.data.company
          /\ r.email = IF last.data.email = NULL THEN old.email ELSE last.data.email
          /\ r.last_machine = IF last.data.lastMachine = NULL THEN old.last_machine
                              ELSE last.data.lastMachine

(* C12 amended: after a Contact update on an existing contact there is one row for    *)
(* the phone; each field whose new value is null, absent or the empty string keeps    *)
(* its stored value and each field whose new value is a non-empty string holds the    *)
(* new value.                                                                         *)
C12_CoalesceMerge ==
    (IsContactUpdate /\ last.prior # {})
    => /\ Cardinality(getContact(contacts, last.phone)) = 1
       /\ \A r \in getContact(contacts, last.phone) : \A old \in last.prior :
             /\ r.name = IF last.data.name \in {NULL, ""} THEN old.name ELSE last.data.name
             /\ r.company = IF last.data.company \in {NULL, ""} THEN old.company
                            ELSE last.data.company
             /\ r.email = IF last.data.email \in {NULL, ""} THEN old.email ELSE last.data.email
             /\ r.last_machine = IF last.data.lastMachine \in {NULL, ""} THEN old.last_machine
                                 ELSE last.data.lastMachine

(* A null name and the company "Acme" have been merged into a contact with a name. *)
C12_Witness ==
    /\ IsContactUpdate
    /\ last.data.name = NULL
    /\ last.data.company = "Acme"
    /\ \E old \in last.prior : old.name = "Abhave" /\ old.company = "Tex Intel HQ"
    /\ \E r \in getContact(contacts, last.phone) : r.name = "Abhave" /\ r.company = "Acme"

(* The phone a request in flight updates the Contact of. *)
PhoneOf(d) == reportCallerPhone(MessageOf(d), DataOf(d))

(* Both requests have run their Contact statement, on the same phone. *)
BothWroteSamePhone ==
    /\ \A d \in Deliveries : inflight[d].wrote > 0
    /\ \A d, e \in Deliveries : PhoneOf(d) = PhoneOf(e)

(* The values the two writers supplied for a field, and the value stored before them. *)
FieldOutcomeOk(final, stored, earlier, later) ==
    /\ final \in {stored} \cup ({earlier, later} \ {NULL})
    /\ (earlier # NULL /\ later # NULL) => final = later

(* C13: after two concurrent Contact updates for the same phone, under every          *)
(* interleaving, exactly one Contact row exists for the phone and every field holds   *)
(* the value stored before or a non-null value supplied by one of the writers, the    *)
(* later writer's value wherever both supplied one.                                   *)
C13_LastWriterWinsPerField ==
    BothWroteSamePhone
    => LET first == CHOOSE d \in Deliveries : inflight[d].wrote = 1
           second == CHOOSE d \in Deliveries : inflight[d].wrote = 2
           phoneNumber == PhoneOf(first)
           before == getContact(SeedContacts, phoneNumber)
           stored == IF before = {}
                     THEN [name |-> NULL, company |-> NULL, email |-> NULL,
                           last_machine |-> NULL]
                     ELSE CHOOSE r \in before : TRUE
           a == reportContactData(DataOf(first))
           b == reportContactData(DataOf(second))
       IN /\ Cardinality(getContact(contacts, phoneNumber)) = 1
          /\ \A r \in getContact(contacts, phoneNumber) :
                /\ FieldOutcomeOk(r.name, stored.name, OrNull(a.name), OrNull(b.name))
                /\ FieldOutcomeOk(r.company, stored.company, OrNull(a.company),
                                  OrNull(b.company))
                /\ FieldOutcomeOk(r.email, stored.email, OrNull(a.email), OrNull(b.email))
                /\ FieldOutcomeOk(r.last_machine, stored.last_machine, OrNull(a.lastMachine),
                                  OrNull(b.lastMachine))

StructuredRowsOf(callId) == {r \in call_structured_data : r.call_id = callId}

(* C14: under any interleaving of concurrent end-of-call-report deliveries, the store *)
(* never holds more than one Call row nor more than one StructuredCallData row for a  *)
(* call id.                                                                           *)
C14_OneRowPerCallId ==
    \A id \in CallIds :
        /\ Cardinality(RowsOf(id)) <= 1
        /\ Cardinality(StructuredRowsOf(id)) <= 1

(* Two reports for one call id, with different structured results, are both in flight *)
(* and both have written their Call row and their StructuredCallData row.             *)
C14_Witness ==
    /\ \A d \in Deliveries : inflight[d].pc = "selectContact"
    /\ \A d, e \in Deliveries : MessageOf(d).callId = MessageOf(e).callId
    /\ DataOf("d1") # DataOf("d2")
    /\ \E d \in Deliveries : Cardinality(RowsOf(MessageOf(d).callId)) = 1
    /\ \E d \in Deliveries : Cardinality(StructuredRowsOf(MessageOf(d).callId)) = 1

C16_StructuredDataHasCall ==
    \A r \in call_structured_data : \E c \in calls : c.id = r.call_id

(* A StructuredCallData row has just been stored for a call id that has its Call row. *)
C16_Witness ==
    /\ last.endpoint = "store"
    /\ last.op = "saveStructuredData"
    /\ ~last.threw
    /\ StructuredRowsOf(last.id) # {}
    /\ RowsOf(last.id) # {}

(* C17: a Call row is never deleted: in every step, each call id that has a Call row  *)
(* before the step has one after it.                                                  *)
C17_CallRowNeverDeleted ==
    [][\A id \in CallIds : RowsOf(id) # {} => {c \in calls' : c.id = id} # {}]_vars

(* A report whose Call row was refused has followed the report that stored the row of *)
(* the same call id, and the row is still there.                                      *)
C17_Witness ==
    /\ IsReport
    /\ last.threw = "saveCall"
    /\ last.priorSummaries # {}
    /\ RowsOf(last.callId) # {}

(* C18: a report whose structured result is absent or is an error writes the Call row *)
(* only: the step that handles it leaves the StructuredCallData rows and the Contact  *)
(* rows as they were, so that these change only for a report that carries a result.   *)
C18_NoResultWritesCallOnly ==
    [][(/\ last'.endpoint = "webhook"
        /\ last'.type = "end-of-call-report"
        /\ extractStructuredData(last'.message.structuredOutputs) = {})
       => (/\ call_structured_data' = call_structured_data
           /\ contacts' = contacts)]_vars

(* C19: an assistant-request for a phone line without a mapping is resolved to the    *)
(* default tenant and is not rejected as an unknown line.                             *)
C19_UnmappedLineGetsDefaultTenant ==
    (IsAssistantRequest /\ last.fault = "none" /\ ~last.mapped)
    => (/\ last.client # NULL
        /\ response.status # 404)

ObservationalTypes == {"status-update", "conversation-update", "speech-update"}

C22_NoTransferWhileClosed ==
    [][(/\ last'.endpoint = "tools"
        /\ last'.batch > 0
        /\ last'.handler = "transfer_call"
        /\ ~isOpenAt(clock'))
       => controlPosts' = controlPosts]_vars

IsCallback == IsToolCall /\ last.handler = "schedule_callback"

(* The five arguments of schedule_callback. *)
CallbackKeys == {"customer_name", "customer_phone", "preferred_time", "reason", "department"}

TenantNotResolved == last.fault # "getClientByPhoneNumberId" /\ last.client = {}

(* C24: a schedule_callback whose tenant lookup finds no tenant does not raise: it is  *)
(* answered 200 with one result carrying the tool call id and the apology string, and *)
(* neither attempts nor persists a CallbackRequest.                                   *)
C24_MissingTenantApology ==
    (IsCallback /\ TenantNotResolved)
    => (/\ last.threw = <<>>
        /\ response.status = 200
        /\ "results" \in DOMAIN response.body
        /\ Len(response.body.results) = 1
        /\ response.body.results[1].toolCallId = last.toolCallId
        /\ response.body.results[1].result = callbackClientNotFound.result
        /\ ~last.attempted
        /\ last.created = {})

(* A complete callback request on a line without a tenant has been answered with the  *)
(* apology and the store holds no CallbackRequest.                                    *)
C24_Witness ==
    /\ IsCallback
    /\ TenantNotResolved
    /\ Arg(last.args, "preferred_time") = "tomorrow at 9am"
    /\ Arg(last.args, "customer_name") = "Bob"
    /\ response.status = 200
    /\ callback_requests = {}

CallbackStatuses == {"pending", "completed", "cancelled"}

(* Preferred-time strings that name a moment before the one they are spoken at. *)
PastTimes == {"yesterday at 9am"}

(* C25: in every reachable state every CallbackRequest has a status among pending,    *)
(* completed and cancelled, has a department, and holds a preferred time that lay in  *)
(* the future when the request was created.                                           *)
C25_CallbackRequestsWellFormed ==
    \A r \in callback_requests :
        /\ r.status \in CallbackStatuses
        /\ r.department # NULL
        /\ r.preferred_time # NULL
        /\ r.preferred_time \notin PastTimes

(* C26: when the arguments of the first tool call are a string that is not valid      *)
(* JSON, the request is not rejected: the tool's handler runs with the empty argument *)
(* set, and the reply is the one the handler produces from it: for check_inventory    *)
(* the lookup of the empty query, for schedule_callback a result string, and an error *)
(* response only where the handler itself threw.                                      *)
C26_MalformedArgumentsDefaultToEmpty ==
    (IsToolCall /\ last.malformed)
    => (/\ last.handler = last.name
        /\ last.args = EmptyArgs
        /\ response.status = IF last.threw = <<>> THEN 200 ELSE 500
        /\ response.status = 500 => response.body.details = last.threw
        /\ last.handler = "check_inventory"
           => response = ToolResults(last.toolCallId, searchAndFormat(<<>>))
        /\ (last.handler = "schedule_callback" /\ last.threw = <<>>)
           => "results" \in DOMAIN response.body)

(* check_inventory has been called with arguments that are not valid JSON and has     *)
(* answered with the lookup of the empty query.                                       *)
C26_Witness ==
    /\ IsToolCall
    /\ last.malformed
    /\ last.handler = "check_inventory"
    /\ last.args = EmptyArgs
    /\ response.status = 200
    /\ response.body.results[1].result = searchAndFormat(<<>>)

(* The tool of the request is registered and its handler returned. *)
ToolSucceeded == IsToolCall /\ last.handler # NULL /\ last.threw = <<>>

(* C27: a sync tool whose handler returned is answered 200 with a results list of one *)
(* entry holding the tool call id and the result string; an async tool whose handler  *)
(* returned is answered 200 with the bare status acknowledgement {status: ok} and no  *)
(* result.                                                                            *)
C27_SyncResultsAsyncAck ==
    ToolSucceeded
    => IF last.handler \in AsyncTools
       THEN response = OkAck
       ELSE /\ response.status = 200
            /\ DOMAIN response.body = {"results"}
            /\ Len(response.body.results) = 1
            /\ response.body.results[1].toolCallId = last.toolCallId
            /\ DOMAIN response.body.results[1] = {"toolCallId", "result"}

(* The strings a text is put together from. *)
PartsOf(text) == {text[i] : i \in 1..Len(text)}

NewCallerMarker == <<"- New caller (no history)">>

(* The system message of the override sent in the response. *)
SystemContent == response.body.assistantOverrides.model.messages[1].content

IsContextBuilt == last.endpoint = "context" /\ ~last.threw

CallerBlock == last.variables.caller_context

(* The names on file in the Caller Directory. *)
NamesOnFile == {c.name : c \in {x \in contacts : Truthy(x.name)}}

(* C29: the context built for a phone that has no contact holds, in its caller block, *)
(* the literal new-caller marker, and holds no name line and no name of the directory. *)
C29_AbsentPhoneIsNewCaller ==
    (IsContextBuilt /\ last.history = {})
    => (/\ \E i \in 1..Len(CallerBlock) : CallerBlock[i] = <<"New caller (no history)">>
        /\ \A i \in 1..Len(CallerBlock) :
              /\ CallerBlock[i][1] # "Name: "
              /\ PartsOf(CallerBlock[i]) \cap NamesOnFile = {})

(* The context has been built for a phone without a contact while the directory holds *)
(* a named contact for another phone.                                                 *)
C29_Witness ==
    /\ IsContextBuilt
    /\ last.history = {}
    /\ last.callerPhone = UnknownPhone
    /\ NamesOnFile # {}
    /\ CallerBlock = << <<"New caller (no history)">>, <<"Phone: ", UnknownPhone>> >>

(* The line label of each optional caller field of the block. *)
FieldLabel(field) ==
    CASE field = "company" -> "Company: "
      [] field = "status" -> "Status: "
      [] field = "last_machine" -> "Previously asked about: "

(* C30: in the caller block every absent caller field is rendered, with an unknown    *)
(* marker, and none is left out: a caller without a name gets the new-caller marker,  *)
(* and for a caller with a name each of company, status and last topic that is absent *)
(* still has its line in the block.                                                   *)
C30_AbsentFieldsMarked ==
    (IsContextBuilt /\ last.fault = "none")
    => IF \A h \in last.history : ~Truthy(h.name)
       THEN \E i \in 1..Len(CallerBlock) : CallerBlock[i] = <<"New caller (no history)">>
       ELSE \A h \in last.history : \A field \in {"company", "status", "last_machine"} :
               ~Truthy(h[field])
               => \E i \in 1..Len(CallerBlock) : CallerBlock[i][1] = FieldLabel(field)

(* The closing part of the closed-office opening line. *)
ClosedOfficeTail ==
    ". We're currently closed, but I can help you schedule a callback."

(* The opening line of the assistant configuration returned. *)
FirstMessage ==
    response.body.assistantOverrides.firstMessage

IsCalendar == last.endpoint = "calendar"

(* The date (day count) and hour of the asked instant in the business timezone. *)
Local == toLocale(last.now, PhoenixOffset)

(* The weekday of the asked instant in the business timezone. *)
LocalWeekday == Local.day % 7

(* C32: at every instant, on a server in any zone, isOpen is true exactly when the    *)
(* instant's weekday and hour in the business timezone fall inside the open window    *)
(* the schedule gives that weekday.                                                   *)
C32_IsOpenMatchesSchedule ==
    IsCalendar
    => (last.isOpen
        <=> \E window \in Schedule[LocalWeekday] :
               Local.hour >= window.open /\ Local.hour < window.close)

(* The calendar has been asked on a server running in UTC on a Saturday afternoon of   *)
(* the business timezone, inside the Saturday window, and reports the office open.    *)
C32_Witness ==
    /\ IsCalendar
    /\ last.serverOffset = 0
    /\ LocalWeekday = 6
    /\ Local.hour = 14
    /\ last.isOpen

(* The pre-computed dates the calendar returned. *)
Upcoming == last.upcomingBusinessDays

(* The number of days from the asked date to the first later day with an open window. *)
DaysToNextBusinessDay ==
    CHOOSE k \in 1..7 :
        /\ Schedule[(LocalWeekday + k) % 7] # {}
        /\ \A j \in 1..(k - 1) : Schedule[(LocalWeekday + j) % 7] = {}

(* C33: the next-Monday and next-Tuesday date strings name a date strictly after the   *)
(* asked instant's date in the business timezone, on a Monday and on a Tuesday, also  *)
(* when the instant is itself on a Monday or a Tuesday.                               *)
C33_NextMondayTuesdayInFuture ==
    IsCalendar
    => /\ Upcoming.nextMonday.day > Local.day
       /\ Upcoming.nextMonday.weekday = "Monday"
       /\ Upcoming.nextTuesday.day > Local.day
       /\ Upcoming.nextTuesday.weekday = "Tuesday"

(* C34: the tomorrow date is left out exactly when the day after the asked instant's   *)
(* date has no open window, and otherwise names the date one day after that date in   *)
(* the business timezone.                                                             *)
C34_TomorrowIsTheDayAfter ==
    IsCalendar
    => /\ (Upcoming.tomorrow = {}) <=> (Schedule[(LocalWeekday + 1) % 7] = {})
       /\ \A tomorrow \in Upcoming.tomorrow : tomorrow.day = Local.day + 1

(* C35: the next-business-day date is the first date strictly after the asked          *)
(* instant's date in the business timezone that has an open window.                   *)
C35_NextBusinessDayIsEarliestOpenDay ==
    IsCalendar
    => Upcoming.nextBusinessDay.day = Local.day + DaysToNextBusinessDay

(* The earliest opening after the asked instant by the schedule: the number of days   *)
(* from the asked date and the opening hour.                                          *)
EarliestOpening ==
    IF \E window \in Schedule[LocalWeekday] : Local.hour < window.open
    THEN [days |-> 0, hour |-> (CHOOSE window \in Schedule[LocalWeekday] : TRUE).open]
    ELSE [days |-> DaysToNextBusinessDay,
          hour |-> (CHOOSE window \in Schedule[(LocalWeekday + DaysToNextBusinessDay) % 7] :
                        TRUE).open]

(* The days from the asked date to the next day of the given weekday after it. *)
DaysUntil(weekday) == ((weekday + 6 - LocalWeekday) % 7) + 1

(* The opening a next-open description names, read on the asked date. *)
OpeningNamed(description) ==
    CASE description = "Today at 8:00 AM" -> [days |-> 0, hour |-> 8]
      [] description = "Today at 9:00 AM" -> [days |-> 0, hour |-> 9]
      [] description = "Tomorrow at 8:00 AM" -> [days |-> 1, hour |-> 8]
      [] description = "Saturday at 9:00 AM" -> [days |-> DaysUntil(6), hour |-> 9]
      [] description = "Monday at 8:00 AM" -> [days |-> DaysUntil(1), hour |-> 8]

(* C36: whenever the calendar reports the office closed it gives a next-open           *)
(* description, and the description names the earliest opening after the asked        *)
(* instant: today's opening before it, else the opening of the next day with a window.*)
C36_NextOpenIsEarliestOpening ==
    (IsCalendar /\ ~last.isOpen)
    => /\ last.nextOpenTime # NULL
       /\ OpeningNamed(last.nextOpenTime) = EarliestOpening

(* The calendar has been asked on a Friday afternoon after closing and names the      *)
(* Saturday opening.                                                                  *)
C36_Witness ==
    /\ IsCalendar
    /\ ~last.isOpen
    /\ LocalWeekday = 5
    /\ Local.hour = 13
    /\ last.nextOpenTime = "Saturday at 9:00 AM"

(* C37: a repeated end-of-call-report never removes the StructuredCallData of its call *)
(* id: in every step that handles a report, a StructuredCallData row held for the     *)
(* report's call id before the step is followed by one for that id after it, whether  *)
(* or not the report carries a structured result.                                     *)
C37_StructuredDataSurvivesRepeat ==
    [][(/\ last'.endpoint = "webhook"
        /\ last'.type = "end-of-call-report"
        /\ StructuredRowsOf(last'.callId) # {})
       => {r \in call_structured_data' : r.call_id = last'.callId} # {}]_vars

(* C38: a Contact's call count goes up once per call, a repeated report of a call id   *)
(* not counting again: no Contact's count exceeds the number of distinct call ids     *)
(* that have been reported and stored.                                                *)
C38_CallCountOncePerCall ==
    \A contact \in contacts : contact.total_calls <= Cardinality({c.id : c \in calls})

(* C39: the Call row of a report is stored whatever its success-evaluation text is:    *)
(* unless the store itself fails, after a report the row of its call id is held with  *)
(* the report's summary, and its score is a number from 1 to 10 or is left out.       *)
C39_CallRowStoredWhateverScore ==
    (IsReport /\ last.fault # "saveCall")
    => \E row \in RowsOf(last.callId) :
          /\ row.summary = OrNull(last.summary)
          /\ row.success_score \in (1..10) \cup {NULLNUM}

(* The tenants a phone line resolves to: the clients the line is mapped to, and the   *)
(* default tenant for a line without a mapping.                                       *)
TenantsOfLine(line) ==
    LET mapped == {c \in clients : \E m \in client_phone_numbers :
                       m.vapi_phone_number_id = line /\ m.client_id = c.id}
    IN IF mapped # {} THEN mapped ELSE {c \in clients : c.id = DefaultClientId}

(* C40: every transfer command issued goes to the number on file for the requested     *)
(* department on the tenant of the call's phone line: in every step that posts to a   *)
(* control URL, exactly one command is posted, it is a transfer, and its destination  *)
(* is the non-empty number that tenant holds for the department asked for.            *)
C40_TransferGoesToDepartmentNumber ==
    [][(controlPosts' # controlPosts)
       => (/\ Len(controlPosts') = Len(controlPosts) + 1
           /\ last'.endpoint = "tools"
           /\ last'.handler = "transfer_call"
           /\ LET command == controlPosts'[Len(controlPosts')]
              IN /\ command.type = "transfer"
                 /\ command.url = last'.call.controlUrl
                 /\ Truthy(command.destination.number)
                 /\ \E tenant \in TenantsOfLine(last'.call.phoneNumberId) :
                       command.destination.number
                           = NumberOnFile(tenant, Arg(last'.args, "department")))]_vars

(* A transfer to the service department has been posted for a call on a line mapped    *)
(* to the portal client, to the service number saved for that client.                 *)
C40_Witness ==
    /\ IsTransfer
    /\ Len(last.posted) = 1
    /\ Arg(last.args, "department") = "service"
    /\ \E m \in client_phone_numbers :
          m.vapi_phone_number_id = last.call.phoneNumberId /\ m.client_id = PortalClientId
    /\ last.posted[1].destination.number = "+16025550102"
    /\ controlPosts # <<>>

====
